---- MODULE Spec2Model ----
(***************************************************************************)
(* bunt-logger: a process-wide logger front end.  One lazily constructed   *)
(* LogPrefs value sits behind a std::sync::Mutex (LOGPREFS); the macros    *)
(* error!/warn!/info!/debug!/trace! expand to try_log!, which locks it,    *)
(* asks enabled(level) and only then evaluates the arguments and writes    *)
(* the record to the installed writer while the guard is still alive.      *)
(*                                                                         *)
(* Threads are ordinary preemptible threads; every step below is one       *)
(* atomic step of one thread.                                              *)
(***************************************************************************)
EXTENDS Integers, Sequences, FiniteSets, TLC

\* ---------------------------------------------------------------- bounds
NumThreads == 3      \* threads of the process; thread 1 is the main thread
MaxCalls   == 2      \* log macro invocations issued in one run (all threads)
MaxConfigs == 1      \* `bunt_logger::with()...` statements in one run
MaxSinks   == 2      \* writer handles allocated in one run (the default included)
Segs       == 2      \* write calls bunt::writeln! makes for one record

Threads == 1..NumThreads
MainThread == 1
NoThread == 0

\* ------------------------------------------------- the log crate's levels
\* log::Level is `#[repr(usize)] enum Level { Error = 1, Warn, Info, Debug, Trace }`
Levels == {"Error", "Warn", "Info", "Debug", "Trace"}

LevelUsize(l) ==
    CASE l = "Error" -> 1
      [] l = "Warn"  -> 2
      [] l = "Info"  -> 3
      [] l = "Debug" -> 4
      [] l = "Trace" -> 5

\* log::LevelFilter is `enum LevelFilter { Off, Error, Warn, Info, Debug, Trace }`
LevelFilters == {"Off"} \cup Levels

LevelFilterUsize(f) ==
    CASE f = "Off"   -> 0
      [] f = "Error" -> 1
      [] f = "Warn"  -> 2
      [] f = "Info"  -> 3
      [] f = "Debug" -> 4
      [] f = "Trace" -> 5

\* LevelFilter::from_usize
LevelFilterFromUsize(n) == CHOOSE f \in LevelFilters : LevelFilterUsize(f) = n

\* (mutant) the conversion counting from the wrong end
to_level_filter_reversed(l) == LevelFilterFromUsize(6 - LevelUsize(l))

\* (mutant) the conversion one discriminant too low: Error becomes Off
to_level_filter_off(l) == LevelFilterFromUsize(LevelUsize(l) - 1)

\* Level::to_level_filter: the filter with the same discriminant
to_level_filter(l) == LevelFilterFromUsize(LevelUsize(l))

\* impl PartialOrd<Level> for LevelFilter: compares the discriminants
FilterGeLevel(f, l) == LevelFilterUsize(f) >= LevelUsize(l)

\* ------------------------------------------------------------ the writers
\* termcolor::ColorChoice values the callers pass (Never behaves like Always here)
ColorChoices == {"Always", "Auto"}

\* A writer handle is a Box<dyn WriteColor + Send>: an allocation (id) over a
\* destination.  "buffer" stands for a caller-supplied in-memory writer.
StandardStream(id, stream, color) == [id |-> id, target |-> stream, color |-> color]
BufferWriter(id) == [id |-> id, target |-> "buffer", color |-> "Never"]
NoWriter == [id |-> 0, target |-> "none", color |-> "Never"]

\* A write to a standard stream can return an io::Error (closed pipe, full
\* disk); a write to an in-memory buffer cannot.
CanFail(w) == w.target \in {"stdout", "stderr"}

\* what evaluating the argument expressions of a log macro can do
\*   none   nothing (no arguments, or pure ones)
\*   incr   a side effect: increments a counter
\*   panic  panics
\*   relog  uses the logger itself (with() or a log macro)
ArgKinds == {"none", "incr", "panic", "relog"}

NoOp == [kind |-> "none", level |-> "Error", id |-> 0]

VARIABLES
    lazy,      \* LOGPREFS: "uninit", "running" (closure executing) or "done"
    prefs,     \* the Lazy's cell: <<>> or <<LogPrefs>>
    built,     \* how many times LogPrefs::new has run
    holder,    \* the thread owning the MutexGuard, or NoThread
    poisoned,  \* the Mutex's poison flag
    exited,    \* the process has terminated
    pc,        \* where each thread is
    op,        \* the call each thread is executing
    tgt,       \* the writer borrowed by get_writer in each thread's call
    seg,       \* segments of the current record each thread has written
    out,       \* what each writer handle has received: <<thread, call id, segment>>
    nextId,    \* writer handles allocated so far
    counter,   \* the counter the "incr" argument increments
    issued,    \* log macro invocations so far
    nconf,     \* configuration statements so far
    fault,     \* why a thread panicked: "none", "poison", "arg", "fmt", "user"
    ioFailed,  \* call ids whose write returned an io::Error
    fmtFailed, \* call ids whose rendering panicked
    lastLevel, \* the last argument of level(...), "Info" before any
    lastQuiet, \* the last argument of quiet(...), FALSE before any
    acquired,  \* ids of the log calls whose with() returned a guard, in that order
    reentered  \* threads that called lock() while owning the guard

vars == <<lazy, prefs, built, holder, poisoned, exited, pc, op, tgt, seg,
          out, nextId, counter, issued, nconf, fault, ioFailed, fmtFailed, lastLevel, lastQuiet,
          acquired, reentered>>

\* the LogPrefs behind the lock (only meaningful once LOGPREFS is forced)
P == prefs[1]

\* ----------------------------------------------------------- LogPrefs
\* LogPrefs::new
LogPrefs_new ==
    [quiet |-> FALSE, filter |-> "Info", writer |-> StandardStream(1, "stdout", "Auto")]

\* (mutant) quiet that stores nothing
quiet_ignored(p, q) == p

\* LogPrefs::quiet
quiet(p, q) == [p EXCEPT !.quiet = q]

\* (mutant) level that also clears the quiet flag
level_unquiets(p, l) == [p EXCEPT !.filter = to_level_filter(l), !.quiet = FALSE]

\* LogPrefs::level
level(p, l) == [p EXCEPT !.filter = to_level_filter(l)]

\* (mutant) writer that drops the new handle and keeps the old one
writer_kept(p, w) == p

\* LogPrefs::writer
writer(p, w) == [p EXCEPT !.writer = w]

\* LogPrefs::stdout
stdout(p, id, color) == writer(p, StandardStream(id, "stdout", color))

\* LogPrefs::stderr
stderr(p, id, color) == writer(p, StandardStream(id, "stderr", color))

\* (mutant) the comparison of enabled turned round
enabled_reversed(p, l) == ~p.quiet /\ LevelFilterUsize(p.filter) <= LevelUsize(l)

\* LogPrefs::enabled
enabled(p, l) == ~p.quiet /\ FilterGeLevel(p.filter, l)

\* LogPrefs::get_writer
get_writer(p) == p.writer

Init ==
    /\ lazy = "uninit"
    /\ prefs = <<>>
    /\ built = 0
    /\ holder = NoThread
    /\ poisoned = FALSE
    /\ exited = FALSE
    /\ pc = [t \in Threads |-> "idle"]
    /\ op = [t \in Threads |-> NoOp]
    /\ tgt = [t \in Threads |-> NoWriter]
    /\ seg = [t \in Threads |-> 0]
    /\ out = [h \in 1..MaxSinks |-> <<>>]
    /\ nextId = 0
    /\ counter = 0
    /\ issued = 0
    /\ nconf = 0
    /\ fault = [t \in Threads |-> "none"]
    /\ ioFailed = {}
    /\ fmtFailed = {}
    /\ lastLevel = "Info"
    /\ lastQuiet = FALSE
    /\ acquired = <<>>
    /\ reentered = {}


\* ------------------------------------------------------------ helpers
At(t, where) == ~exited /\ pc[t] = where

\* (mutant) a lock without poisoning: the unwinding guard only unlocks
Unwind_nopoison(t, why) ==
    /\ pc' = [pc EXCEPT ![t] = "panicked"]
    /\ fault' = [fault EXCEPT ![t] = why]
    /\ exited' = (t = MainThread)
    /\ op' = [op EXCEPT ![t] = NoOp]
    /\ tgt' = [tgt EXCEPT ![t] = NoWriter]
    /\ seg' = [seg EXCEPT ![t] = 0]
    /\ holder' = (IF holder = t THEN NoThread ELSE holder)
    /\ UNCHANGED poisoned

\* A panic unwinds thread t.  A MutexGuard dropped while its thread is
\* panicking sets the poison flag and unlocks; a panic that is not caught ends
\* the thread, and the process when the thread is the main thread.
Unwind(t, why) ==
    /\ pc' = [pc EXCEPT ![t] = "panicked"]
    /\ fault' = [fault EXCEPT ![t] = why]
    /\ exited' = (t = MainThread)
    /\ op' = [op EXCEPT ![t] = NoOp]
    /\ tgt' = [tgt EXCEPT ![t] = NoWriter]
    /\ seg' = [seg EXCEPT ![t] = 0]
    /\ IF holder = t
         THEN poisoned' = TRUE /\ holder' = NoThread
         ELSE UNCHANGED <<poisoned, holder>>

\* (mutant) the guard is never unlocked when it goes out of scope
DropGuard_leak(t) ==
    /\ pc' = [pc EXCEPT ![t] = "idle"]
    /\ op' = [op EXCEPT ![t] = NoOp]
    /\ tgt' = [tgt EXCEPT ![t] = NoWriter]
    /\ seg' = [seg EXCEPT ![t] = 0]
    /\ UNCHANGED holder

\* The guard `prefs` goes out of scope at the end of the try_log! block (or
\* the temporary returned by with() at the end of the statement): unlock.
DropGuard(t) ==
    /\ holder' = (IF holder = t THEN NoThread ELSE holder)
    /\ pc' = [pc EXCEPT ![t] = "idle"]
    /\ op' = [op EXCEPT ![t] = NoOp]
    /\ tgt' = [tgt EXCEPT ![t] = NoWriter]
    /\ seg' = [seg EXCEPT ![t] = 0]

\* (mutant) a re-entrant lock: the owner's second lock() succeeds
Relock_reentrant(t) ==
    /\ reentered' = reentered \cup {t}
    /\ pc' = [pc EXCEPT ![t] = IF pc[t] = "eval" THEN "write" ELSE pc[t]]
    /\ UNCHANGED <<holder, poisoned, exited, op, tgt, seg, fault>>

\* Mutex::lock called by the thread that already owns the guard "will not
\* return": std leaves open whether it deadlocks or panics.
Relock(t) ==
    /\ reentered' = reentered \cup {t}
    /\ \/ /\ pc' = [pc EXCEPT ![t] = "stuck"]
          /\ UNCHANGED <<holder, poisoned, exited, op, tgt, seg, fault>>
       \/ Unwind(t, "relock")

\* ------------------------------------------------------- the log macros
\* try_log!($level, writer => { ... }): the call starts with `$crate::with()`
try_log(t, l) ==
    /\ At(t, "idle")
    /\ issued < MaxCalls
    /\ issued' = issued + 1
    /\ op' = [op EXCEPT ![t] = [kind |-> "log", level |-> l, id |-> issued + 1]]
    /\ pc' = [pc EXCEPT ![t] = "with"]
    /\ UNCHANGED <<acquired, reentered, lazy, prefs, built, holder, poisoned, exited, tgt, seg, out,
                   nextId, counter, nconf, fault, ioFailed, fmtFailed, lastLevel, lastQuiet>>

error(t) == try_log(t, "Error")
warn(t) == try_log(t, "Warn")
info(t) == try_log(t, "Info")
debug(t) == try_log(t, "Debug")
trace(t) == try_log(t, "Trace")

\* a statement `bunt_logger::with()....;` of the caller starts
configure(t) ==
    /\ At(t, "idle")
    /\ nconf < MaxConfigs
    /\ nconf' = nconf + 1
    /\ op' = [op EXCEPT ![t] = [NoOp EXCEPT !.kind = "cfg"]]
    /\ pc' = [pc EXCEPT ![t] = "with"]
    /\ UNCHANGED <<acquired, reentered, lazy, prefs, built, holder, poisoned, exited, tgt, seg, out,
                   nextId, counter, issued, fault, ioFailed, fmtFailed, lastLevel, lastQuiet>>

\* ------------------------------------------------- LOGPREFS and with()
\* (mutant) an initialisation without the once-guard: every thread that
\* arrives before the cell is filled runs the closure
LOGPREFS_begin_racy(t) ==
    /\ At(t, "with")
    /\ lazy \in {"uninit", "running"}
    /\ lazy' = "running"
    /\ pc' = [pc EXCEPT ![t] = "init"]
    /\ UNCHANGED <<acquired, reentered, prefs, built, holder, poisoned, exited, op, tgt, seg, out,
                   nextId, counter, issued, nconf, fault, ioFailed, fmtFailed,
                   lastLevel, lastQuiet>>

\* Lazy::force, first access: this thread runs the closure, others wait
LOGPREFS_begin(t) ==
    /\ At(t, "with")
    /\ lazy = "uninit"
    /\ lazy' = "running"
    /\ pc' = [pc EXCEPT ![t] = "init"]
    /\ UNCHANGED <<acquired, reentered, prefs, built, holder, poisoned, exited, op, tgt, seg, out,
                   nextId, counter, issued, nconf, fault, ioFailed, fmtFailed, lastLevel, lastQuiet>>

\* the closure: `let prefs = LogPrefs::new(); Mutex::new(prefs)`
LOGPREFS_end(t) ==
    /\ At(t, "init")
    /\ prefs' = <<LogPrefs_new>>
    /\ built' = built + 1
    /\ nextId' = LogPrefs_new.writer.id
    /\ lazy' = "done"
    /\ pc' = [pc EXCEPT ![t] = "with"]
    /\ UNCHANGED <<acquired, reentered, holder, poisoned, exited, op, tgt, seg, out,
                   counter, issued, nconf, fault, ioFailed, fmtFailed, lastLevel, lastQuiet>>

\* (mutant) try_lock().unwrap(): a busy lock panics instead of blocking
with_try(t) ==
    /\ At(t, "with")
    /\ lazy = "done"
    /\ IF poisoned \/ holder # NoThread
         THEN Unwind(t, IF poisoned THEN "poison" ELSE "busy")
         ELSE /\ holder' = t
              /\ pc' = [pc EXCEPT ![t] = IF op[t].kind = "log" THEN "check" ELSE "handle"]
              /\ UNCHANGED <<poisoned, exited, op, tgt, seg, fault>>
    /\ UNCHANGED <<reentered, lazy, prefs, built, out, nextId, counter, issued, nconf, ioFailed,
                   fmtFailed, lastLevel, lastQuiet>>
    /\ acquired' = (IF holder' = t /\ op[t].kind = "log"
                        THEN Append(acquired, op[t].id) ELSE acquired)

\* (mutant) lock().unwrap_or_else(|e| e.into_inner()): poison is ignored
with_recover(t) ==
    /\ At(t, "with")
    /\ lazy = "done"
    /\ holder = NoThread
    /\ holder' = t
    /\ pc' = [pc EXCEPT ![t] = IF op[t].kind = "log" THEN "check" ELSE "handle"]
    /\ UNCHANGED <<poisoned, exited, op, tgt, seg, fault>>
    /\ UNCHANGED <<reentered, lazy, prefs, built, out, nextId, counter, issued, nconf, ioFailed,
                   fmtFailed, lastLevel, lastQuiet>>
    /\ acquired' = (IF holder' = t /\ op[t].kind = "log"
                        THEN Append(acquired, op[t].id) ELSE acquired)

\* (mutant) with() that does not wait for the owner of the guard
with_unlocked(t) ==
    /\ At(t, "with")
    /\ lazy = "done"
    /\ IF poisoned
         THEN Unwind(t, "poison")
         ELSE /\ holder' = t
              /\ pc' = [pc EXCEPT ![t] = IF op[t].kind = "log" THEN "check" ELSE "handle"]
              /\ UNCHANGED <<poisoned, exited, op, tgt, seg, fault>>
    /\ UNCHANGED <<reentered, lazy, prefs, built, out, nextId, counter, issued, nconf, ioFailed,
                   fmtFailed, lastLevel, lastQuiet>>
    /\ acquired' = (IF holder' = t /\ op[t].kind = "log"
                        THEN Append(acquired, op[t].id) ELSE acquired)

\* with(): LOGPREFS.lock().unwrap()
with(t) ==
    /\ At(t, "with")
    /\ lazy = "done"
    /\ holder = NoThread
    /\ IF poisoned
         THEN Unwind(t, "poison")
         ELSE /\ holder' = t
              /\ pc' = [pc EXCEPT ![t] = IF op[t].kind = "log" THEN "check" ELSE "handle"]
              /\ UNCHANGED <<poisoned, exited, op, tgt, seg, fault>>
    /\ UNCHANGED <<reentered, lazy, prefs, built, out, nextId, counter, issued, nconf, ioFailed, fmtFailed,
                   lastLevel, lastQuiet>>
    /\ acquired' = (IF holder' = t /\ op[t].kind = "log"
                        THEN Append(acquired, op[t].id) ELSE acquired)

\* ------------------------------------------------------------ try_log!
\* (mutant) a logging function instead of a macro: the arguments are
\* evaluated at the call, whatever enabled answers
try_log_check_eager(t) ==
    /\ At(t, "check")
    /\ counter' = counter + 1
    /\ IF enabled(P, op[t].level)
         THEN /\ tgt' = [tgt EXCEPT ![t] = get_writer(P)]
              /\ pc' = [pc EXCEPT ![t] = "eval"]
              /\ UNCHANGED <<holder, op, seg>>
         ELSE DropGuard(t)
    /\ UNCHANGED <<acquired, reentered, lazy, prefs, built, poisoned, exited, out, nextId, issued, nconf,
                   fault, ioFailed, fmtFailed, lastLevel, lastQuiet>>

\* (mutant) the filter asked under one lock and the writer used after it
\* was released: `if with().enabled(Level) { ... }`
try_log_check_unlocked(t) ==
    /\ At(t, "check")
    /\ IF enabled(P, op[t].level)
         THEN /\ tgt' = [tgt EXCEPT ![t] = get_writer(P)]
              /\ pc' = [pc EXCEPT ![t] = "eval"]
              /\ holder' = NoThread
              /\ UNCHANGED <<op, seg>>
         ELSE DropGuard(t)
    /\ UNCHANGED <<acquired, reentered, lazy, prefs, built, poisoned, exited, out, nextId, counter, issued, nconf,
                   fault, ioFailed, fmtFailed, lastLevel, lastQuiet>>

\* `if prefs.enabled(Level) { let mut writer = prefs.get_writer(); ... }`
try_log_check(t) ==
    /\ At(t, "check")
    /\ IF enabled(P, op[t].level)
         THEN /\ tgt' = [tgt EXCEPT ![t] = get_writer(P)]
              /\ pc' = [pc EXCEPT ![t] = "eval"]
              /\ UNCHANGED <<holder, op, seg>>
         ELSE DropGuard(t)
    /\ UNCHANGED <<acquired, reentered, lazy, prefs, built, poisoned, exited, out, nextId, counter, issued, nconf,
                   fault, ioFailed, fmtFailed, lastLevel, lastQuiet>>

\* bunt::writeln!(writer, [fmt], args...): the argument expressions are
\* evaluated first
writeln_args(t, a) ==
    /\ At(t, "eval")
    /\ CASE a = "panic" ->
              Unwind(t, "arg") /\ UNCHANGED <<counter, reentered>>
         [] a = "relog" ->
              Relock(t) /\ UNCHANGED counter
         [] OTHER ->
              /\ counter' = (IF a = "incr" THEN counter + 1 ELSE counter)
              /\ pc' = [pc EXCEPT ![t] = "write"]
              /\ UNCHANGED <<holder, poisoned, exited, op, tgt, seg, fault, reentered>>
    /\ UNCHANGED <<acquired, lazy, prefs, built, out, nextId, issued, nconf, ioFailed, fmtFailed,
                   lastLevel, lastQuiet>>

\* (mutant) a writer that puts what it receives in front of what it has
writeln_write_front(t) ==
    /\ At(t, "write")
    /\ out' = [out EXCEPT ![tgt[t].id] = <<(<<t, op[t].id, seg[t] + 1>>)>> \o @]
    /\ IF seg[t] + 1 = Segs
         THEN DropGuard(t)
         ELSE /\ seg' = [seg EXCEPT ![t] = seg[t] + 1]
              /\ UNCHANGED <<holder, pc, op, tgt>>
    /\ UNCHANGED <<acquired, reentered, lazy, prefs, built, poisoned, exited, nextId, counter,
                   issued, nconf, fault, ioFailed, fmtFailed, lastLevel, lastQuiet>>

\* one write call of the rendering succeeds; after the last one the block
\* ends and the guard is dropped
writeln_write(t) ==
    /\ At(t, "write")
    /\ out' = [out EXCEPT ![tgt[t].id] = Append(@, <<t, op[t].id, seg[t] + 1>>)]
    /\ IF seg[t] + 1 = Segs
         THEN DropGuard(t)
         ELSE /\ seg' = [seg EXCEPT ![t] = seg[t] + 1]
              /\ UNCHANGED <<holder, pc, op, tgt>>
    /\ UNCHANGED <<acquired, reentered, lazy, prefs, built, poisoned, exited, nextId, counter, issued, nconf,
                   fault, ioFailed, fmtFailed, lastLevel, lastQuiet>>

\* (mutant) the result of bunt::writeln! unwrapped instead of discarded
writeln_io_error_unwrap(t) ==
    /\ At(t, "write")
    /\ CanFail(tgt[t])
    /\ ioFailed' = ioFailed \cup {op[t].id}
    /\ Unwind(t, "io")
    /\ UNCHANGED <<acquired, reentered, lazy, prefs, built, out, nextId, counter, issued, nconf,
                   fmtFailed, lastLevel, lastQuiet>>

\* a write call returns Err(io::Error): bunt::writeln! returns it, and
\* `let _ =` discards it; the block ends
writeln_io_error(t) ==
    /\ At(t, "write")
    /\ CanFail(tgt[t])
    /\ ioFailed' = ioFailed \cup {op[t].id}
    /\ DropGuard(t)
    /\ UNCHANGED <<acquired, reentered, lazy, prefs, built, poisoned, exited, out, nextId, counter, issued, nconf,
                   fault, fmtFailed, lastLevel, lastQuiet>>

\* the Display impl of an argument panics in the middle of the rendering,
\* after the text in front of the argument has been written
writeln_fmt_panic(t) ==
    /\ At(t, "write")
    /\ seg[t] >= 1
    /\ fmtFailed' = fmtFailed \cup {op[t].id}
    /\ Unwind(t, "fmt")
    /\ UNCHANGED <<acquired, reentered, lazy, prefs, built, out, nextId, counter, issued, nconf, ioFailed,
                   lastLevel, lastQuiet>>

\* ----------------------------------------- setters on the handle of with()
\* (mutant) every setter locks and unlocks on its own
Setter_released(t, p) ==
    /\ At(t, "handle")
    /\ prefs' = <<p>>
    /\ holder' = NoThread
    /\ UNCHANGED <<acquired, reentered, lazy, built, poisoned, exited, pc, op, tgt, seg, out,
                   counter, issued, nconf, fault, ioFailed, fmtFailed>>

\* `pub fn ...(&mut self, ..) -> &mut Self`: the setter stores into the
\* LogPrefs behind the guard and hands the same borrow back
Setter(t, p) ==
    /\ At(t, "handle")
    /\ prefs' = <<p>>
    /\ UNCHANGED <<acquired, reentered, lazy, built, holder, poisoned, exited, pc, op, tgt, seg, out,
                   counter, issued, nconf, fault, ioFailed, fmtFailed>>

call_quiet(t, q) ==
    /\ Setter(t, quiet(P, q))
    /\ lastQuiet' = q
    /\ UNCHANGED <<nextId, lastLevel>>

call_level(t, l) ==
    /\ Setter(t, level(P, l))
    /\ lastLevel' = l
    /\ UNCHANGED <<nextId, lastQuiet>>

call_writer(t) ==
    /\ nextId < MaxSinks
    /\ Setter(t, writer(P, BufferWriter(nextId + 1)))
    /\ nextId' = nextId + 1
    /\ UNCHANGED <<lastLevel, lastQuiet>>

call_stdout(t, c) ==
    /\ nextId < MaxSinks
    /\ Setter(t, stdout(P, nextId + 1, c))
    /\ nextId' = nextId + 1
    /\ UNCHANGED <<lastLevel, lastQuiet>>

call_stderr(t, c) ==
    /\ nextId < MaxSinks
    /\ Setter(t, stderr(P, nextId + 1, c))
    /\ nextId' = nextId + 1
    /\ UNCHANGED <<lastLevel, lastQuiet>>

\* (mutant) the guard is forgotten (mem::forget) instead of dropped
drop_handle_leak(t) ==
    /\ At(t, "handle")
    /\ pc' = [pc EXCEPT ![t] = "idle"]
    /\ op' = [op EXCEPT ![t] = NoOp]
    /\ UNCHANGED <<acquired, reentered, lazy, prefs, built, holder, poisoned, exited, tgt, seg, out, nextId,
                   counter, issued, nconf, fault, ioFailed, fmtFailed, lastLevel, lastQuiet>>

\* the statement ends: the MutexGuard returned by with() is dropped
drop_handle(t) ==
    /\ At(t, "handle")
    /\ DropGuard(t)
    /\ UNCHANGED <<acquired, reentered, lazy, prefs, built, poisoned, exited, out, nextId, counter, issued, nconf,
                   fault, ioFailed, fmtFailed, lastLevel, lastQuiet>>

\* the caller's code panics while it holds the handle
handle_panic(t) ==
    /\ At(t, "handle")
    /\ Unwind(t, "user")
    /\ UNCHANGED <<acquired, reentered, lazy, prefs, built, out, nextId, counter, issued, nconf, ioFailed, fmtFailed,
                   lastLevel, lastQuiet>>

\* the caller uses the logger again (a log macro or with()) while it holds
\* the handle
handle_relock(t) ==
    /\ At(t, "handle")
    /\ Relock(t)
    /\ UNCHANGED <<acquired, lazy, prefs, built, out, nextId, counter, issued, nconf, ioFailed, fmtFailed,
                   lastLevel, lastQuiet>>

Next ==
    \/ \E t \in Threads : error(t)
    \/ \E t \in Threads : warn(t)
    \/ \E t \in Threads : info(t)
    \/ \E t \in Threads : debug(t)
    \/ \E t \in Threads : trace(t)
    \/ \E t \in Threads : configure(t)
    \/ \E t \in Threads : LOGPREFS_begin(t)
    \/ \E t \in Threads : LOGPREFS_end(t)
    \/ \E t \in Threads : with(t)
    \/ \E t \in Threads : try_log_check(t)
    \/ \E t \in Threads, a \in ArgKinds : writeln_args(t, a)
    \/ \E t \in Threads : writeln_write(t)
    \/ \E t \in Threads : writeln_io_error(t)
    \/ \E t \in Threads : writeln_fmt_panic(t)
    \/ \E t \in Threads, q \in BOOLEAN : call_quiet(t, q)
    \/ \E t \in Threads, l \in Levels : call_level(t, l)
    \/ \E t \in Threads : call_writer(t)
    \/ \E t \in Threads, c \in ColorChoices : call_stdout(t, c)
    \/ \E t \in Threads, c \in ColorChoices : call_stderr(t, c)
    \/ \E t \in Threads : drop_handle(t)
    \/ \E t \in Threads : handle_panic(t)
    \/ \E t \in Threads : handle_relock(t)

Spec == Init /\ [][Next]_vars

\* The steps by which the code of the crate carries thread t's call on to
\* its return: a thread that can take one is running code, not blocked.
Progress(t) ==
    \/ LOGPREFS_begin(t)
    \/ LOGPREFS_end(t)
    \/ with(t)
    \/ try_log_check(t)
    \/ \E a \in ArgKinds : writeln_args(t, a)
    \/ writeln_write(t)
    \/ writeln_io_error(t)
    \/ drop_handle(t)

\* The scheduler runs every thread that can run; the calls are finitely
\* many, so a waiting thread finds the lock free for good in the end.
SpecFair == Spec /\ \A t \in Threads : WF_vars(Progress(t))

TypeOK ==
    /\ lazy \in {"uninit", "running", "done"}
    /\ Len(prefs) <= 1
    /\ holder \in Threads \cup {NoThread}
    /\ \A t \in Threads : pc[t] \in {"idle", "with", "init", "check", "eval", "write",
                                      "handle", "stuck", "panicked"}

\* ======================================================== properties
\* The severity order of the levels: Trace < Debug < Info < Warn < Error.
Severity(l) ==
    CASE l = "Trace" -> 1
      [] l = "Debug" -> 2
      [] l = "Info"  -> 3
      [] l = "Warn"  -> 4
      [] l = "Error" -> 5

\* what the caller configured last: a message of level l passes
Passes(l) == ~lastQuiet /\ Severity(lastLevel) <= Severity(l)

Constructed == lazy = "done"
InLog(t) == pc[t] \in {"check", "eval", "write"}
Holding(t) == pc[t] \in {"check", "eval", "write", "handle", "stuck"}
NoPanic == \A t \in Threads : pc[t] # "panicked"
AllIdle == \A t \in Threads : pc[t] = "idle"
Range(s) == {s[i] : i \in 1..Len(s)}
Written == UNION {Range(out[h]) : h \in 1..MaxSinks}

\* C1: for every level L, every threshold T and every value of quiet,
\* enabled(L) is exactly (!quiet && T <= L) in the severity order
\* Trace < Debug < Info < Warn < Error, T and quiet being what level(...) and
\* quiet(...) were last given (Info and false before any).
C1_EnabledIffSeverity ==
    Constructed => \A l \in Levels : enabled(P, l) <=> Passes(l)

\* a Debug call was admitted under the threshold Debug (T = L), quiet false
C1_Witness ==
    \E t \in Threads :
        /\ pc[t] = "eval"
        /\ op[t].level = "Debug"
        /\ lastLevel = "Debug"
        /\ ~lastQuiet

\* what C2 asks of every step
C2_Step ==
    /\ \A t \in Threads :
          (pc[t] = "check" /\ pc'[t] # "check" /\ ~Passes(op[t].level))
              => (pc'[t] = "idle" /\ counter' = counter /\ out' = out)
    /\ counter' # counter =>
          \E t \in Threads : pc[t] = "eval" /\ holder = t /\ Passes(op[t].level)

\* C2: a log call at a level that is disabled when the call holds the lock
\* (quiet, or less severe than the threshold) ends without evaluating its
\* arguments: the counter they would increment is unchanged and nothing is
\* written; the counter is only ever incremented by a thread that holds the
\* lock in a call that passed the filter.
C2_NoEvalWhenDisabled == [][C2_Step]_vars

\* under the defaults (threshold Info) a call returned with no argument
\* evaluated and nothing written: it was a Debug or Trace call
C2_Witness ==
    /\ issued = 1
    /\ AllIdle
    /\ Constructed
    /\ lastLevel = "Info" /\ ~lastQuiet
    /\ counter = 0
    /\ Written = {}
    /\ ioFailed = {}

\* the record starting at position i of sink h is whole
Complete(h, i) ==
    /\ i + Segs - 1 <= Len(out[h])
    /\ \A k \in 0..(Segs - 1) :
          out[h][i + k] = <<out[h][i][1], out[h][i][2], k + 1>>

\* the call with this id is in the middle of its write
Active(id) == \E t \in Threads : op[t].id = id /\ pc[t] = "write"

\* C3: at most one thread is between the start and the end of its sink write
\* at any time (indeed at most one holds the lock), and every sink holds
\* whole records only: the segments of one call are contiguous and in order,
\* what a writing call has written so far is the end of its sink, a record
\* is only ever incomplete while its call is still writing or when its own
\* write failed, and no segment appears twice or in two sinks.
C3_NoInterleaving ==
    /\ Cardinality({t \in Threads : Holding(t)}) <= 1
    /\ \A t \in Threads :
          pc[t] = "write" =>
              LET o == out[tgt[t].id] IN
              /\ Len(o) >= seg[t]
              /\ \A k \in 1..seg[t] : o[Len(o) - seg[t] + k] = <<t, op[t].id, k>>
    /\ \A h \in 1..MaxSinks : \A i \in 1..Len(out[h]) :
          LET r == out[h][i] IN
          /\ r[3] = 1 \/ (i > 1 /\ out[h][i - 1] = <<r[1], r[2], r[3] - 1>>)
          /\ r[3] = 1 =>
                \/ Complete(h, i)
                \/ r[2] \in ioFailed \cup fmtFailed
                \/ Active(r[2])
          /\ \A g \in 1..MaxSinks : \A j \in 1..Len(out[g]) :
                out[g][j] = r => (g = h /\ j = i)

\* one sink holds the whole records of two calls made by different threads
C3_Witness ==
    \E h \in 1..MaxSinks :
        /\ Len(out[h]) = 2 * Segs
        /\ Complete(h, 1) /\ Complete(h, Segs + 1)
        /\ out[h][1][1] # out[h][Segs + 1][1]

\* C4: after quiet(true) has been applied and until quiet(false) is applied,
\* no step writes anything to any sink, whatever the threshold and whatever
\* level(...) or sink-changing calls happen in between.
C4_QuietSilences == [][lastQuiet => out' = out]_vars

\* quiet(true) with the threshold at Trace: a log call came back and no sink
\* has received anything
C4_Witness ==
    /\ lastQuiet /\ lastLevel = "Trace"
    /\ issued >= 1
    /\ AllIdle
    /\ Written = {}
    /\ ioFailed = {}

\* what C5 asks of every step
C5_Step ==
    /\ \A t \in Threads :
          (pc[t] = "check" /\ pc'[t] # "check")
              => /\ Passes(op[t].level) => (pc'[t] = "eval" /\ holder' = t)
                 /\ ~Passes(op[t].level) => (pc'[t] = "idle" /\ out' = out)
    /\ out' # out =>
          \E t \in Threads : pc[t] = "write" /\ holder = t /\ Passes(op[t].level)

\* C5: a log call goes on to its sink write exactly when quiet is false and
\* its level is at least as severe as the threshold last set by level(T)
\* (Info if never set); a call that is less severe ends without a write, and
\* every segment that reaches a sink comes from a call that passed.
C5_WritesIffSevereEnough == [][C5_Step]_vars

\* after level(Trace) a Trace call is writing its record
C5_Witness ==
    \E t \in Threads :
        /\ pc[t] = "write" /\ seg[t] >= 1
        /\ op[t].level = "Trace"
        /\ lastLevel = "Trace" /\ ~lastQuiet

\* what C6 asks of every step
C6_Step ==
    /\ \A h \in 1..MaxSinks : out'[h] # out[h] => h = nextId
    /\ (\E t \in Threads : pc[t] \in {"eval", "write"})
          => (nextId' = nextId /\ prefs' = prefs)
    /\ \A t \in Threads :
          (pc[t] \in {"eval", "write"} /\ pc'[t] \in {"eval", "write"})
              => tgt'[t] = tgt[t]

\* C6: every write goes to the sink installed last (by LogPrefs::new or by
\* the last completed writer/stdout/stderr call) and never to a sink that was
\* replaced; no replacement takes effect while a call is between its filter
\* check and the end of its write, so that call finishes on the sink it
\* started on.
C6_WritesReachInstalledSink == [][C6_Step]_vars

\* the default sink holds a record, and a record is being written to the
\* sink that replaced it
C6_Witness ==
    /\ nextId = 2
    /\ out[1] # <<>>
    /\ out[2] # <<>>

\* what C7 asks of every step
C7_Step ==
    \A t \in Threads :
        (InLog(t) /\ op[t].id \notin ioFailed /\ op[t].id \in ioFailed')
            => /\ pc'[t] = "idle"
               /\ holder' = NoThread
               /\ poisoned' = poisoned /\ ~poisoned'
               /\ exited' = exited
               /\ prefs' = prefs
               /\ fault' = fault

\* C7: when a write of an enabled log call fails with an I/O error, the
\* call returns normally: its thread is back at the call site, not panicked,
\* the lock is free and not poisoned, and quiet, threshold and sink are as
\* they were.
C7_IoFailureDiscarded == [][C7_Step]_vars

\* a call's write failed, and a later call has written its whole record
C7_Witness ==
    \E id \in ioFailed : \E h \in 1..MaxSinks : \E i \in 1..Len(out[h]) :
        /\ out[h][i][2] > id
        /\ Complete(h, i)
        /\ NoPanic

\* C8 as stated: whatever happens inside a log call after it has acquired
\* the lock, the call returns normally: its thread neither panics nor hangs.
C8_AsStated ==
    [][\A t \in Threads : InLog(t) => pc'[t] \notin {"panicked", "stuck"}]_vars

\* what C8 asks of every step
C8_Step ==
    \A t \in Threads :
        /\ (pc[t] = "check" /\ pc'[t] # "check") => pc'[t] \in {"eval", "idle"}
        /\ (pc[t] = "eval" /\ pc'[t] \notin {"eval", "write"})
              => \/ pc'[t] = "stuck"
                 \/ pc'[t] = "panicked" /\ fault'[t] \in {"arg", "relock"} /\ poisoned'
        /\ (pc[t] = "write" /\ pc'[t] \notin {"write", "idle"})
              => (pc'[t] = "panicked" /\ fault'[t] = "fmt" /\ poisoned')
        /\ (pc[t] = "with" /\ op[t].kind = "log" /\ pc'[t] = "panicked")
              => (poisoned /\ fault'[t] = "poison")

\* C8, amended: of what happens inside a log call that acquired the lock,
\* the filter check and an I/O failure of the write never escape; the call
\* leaves other than by returning only when evaluating its arguments panics
\* or uses the logger again, or when the rendering panics, and a panic
\* poisons the lock; at the acquisition itself the call fails only on a
\* poisoned lock.
C8_OnlyPanicsEscape == [][C8_Step]_vars

\* an argument expression panicked inside an enabled call: the panic
\* reached the call site and the lock is poisoned
C8_Witness == \E t \in Threads : pc[t] = "panicked" /\ fault[t] = "arg" /\ poisoned

\* C9 as stated: an access attempt that finds the lock poisoned terminates
\* the process.
C9_AsStated == (\E t \in Threads : fault[t] = "poison") => exited

\* what C9 asks of every step
C9_Step ==
    /\ poisoned => /\ poisoned'
                   /\ holder = NoThread /\ holder' = NoThread
                   /\ prefs' = prefs /\ counter' = counter /\ out' = out
                   /\ \A t \in Threads : ~Holding(t) /\ ~Holding(t)'
    /\ \A t \in Threads :
          (poisoned /\ pc[t] = "with" /\ pc'[t] # "with")
              => /\ pc'[t] = "panicked"
                 /\ fault'[t] = "poison"
                 /\ exited' = (t = MainThread)

\* C9, amended: once the lock is poisoned it stays poisoned and free, and
\* every access attempt (log call or with()) panics in the calling thread:
\* it gets no handle, quiet/threshold/sink are not touched, no argument is
\* evaluated and nothing is written; the panic ends the calling thread, and
\* the process only when that thread is the main thread.
C9_PoisonedAccessPanics == [][C9_Step]_vars

\* a thread other than the main thread failed on the poisoned lock and the
\* process is still running
C9_Witness ==
    /\ ~exited
    /\ \E t \in Threads : t # MainThread /\ fault[t] = "poison"

\* what C10 asks of every state
C10_State ==
    /\ built <= 1
    /\ (lazy = "done") <=> (built = 1)
    /\ Len(prefs) = built
    /\ \A t \in Threads : Holding(t) => Constructed
    /\ \A t \in Threads :
          (nconf = 0 /\ pc[t] = "write")
              => /\ Severity(op[t].level) >= Severity("Info")
                 /\ tgt[t].target = "stdout" /\ tgt[t].color = "Auto"
                 /\ tgt[t] = P.writer

\* what C10 asks of every step
C10_Step ==
    /\ built' # built =>
          /\ built = 0
          /\ prefs' = <<[quiet |-> FALSE, filter |-> "Info",
                         writer |-> [id |-> 1, target |-> "stdout", color |-> "Auto"]]>>
    /\ prefs' # prefs =>
          \/ built' # built
          \/ \E t \in Threads : pc[t] = "handle" /\ holder = t /\ pc'[t] = "handle"

\* C10: LogPrefs::new runs at most once, on the first access, also when
\* several threads arrive together; it yields quiet=false, threshold=Info,
\* sink=stdout with ColorChoice::Auto; nothing holds the lock before it has
\* run; afterwards the value changes only through a setter called by the
\* holder of the lock, so a log call made before any configuration is gated
\* by Info and writes to stdout.
C10_ConstructedOnceWithDefaults == []C10_State /\ [][C10_Step]_vars

\* two threads arrived before the construction; it ran once, one of them
\* is writing its record to stdout under the defaults and the other waits
C10_Witness ==
    \E t, u \in Threads :
        /\ t # u
        /\ nconf = 0 /\ built = 1
        /\ pc[t] = "write" /\ seg[t] = 1 /\ tgt[t].target = "stdout"
        /\ pc[u] = "with" /\ op[u].id < op[t].id /\ op[u].kind = "log"

\* the fields of LogPrefs that differ between this state and the next
Changed == {f \in {"quiet", "filter", "writer"} : prefs'[1][f] # P[f]}

\* what C11 asks of every step
C11_Step ==
    (Constructed /\ prefs' # prefs) =>
        /\ Cardinality(Changed) = 1
        /\ lastQuiet' # lastQuiet => Changed = {"quiet"}
        /\ lastLevel' # lastLevel => Changed = {"filter"}
        /\ nextId' # nextId => (Changed = {"writer"} /\ prefs'[1].writer.id = nextId')
        /\ prefs'[1].quiet = lastQuiet'
        /\ prefs'[1].filter = lastLevel'
        /\ \E t \in Threads :
              /\ pc[t] = "handle" /\ holder = t
              /\ pc'[t] = "handle" /\ holder' = t

\* C11: each setter changes exactly one field of the shared LogPrefs and
\* leaves the others as they were: quiet(b) only quiet, level(T) only the
\* threshold, writer/stdout/stderr only the sink; the caller still holds the
\* same handle afterwards, so the next setter of the chain acts on the
\* result of the previous one.
C11_SettersChangeOneField == [][C11_Step]_vars

\* the chain with().level(Trace).stderr(..) has been applied on one handle:
\* quiet is as constructed
C11_Witness ==
    /\ Constructed
    /\ \E t \in Threads : pc[t] = "handle"
    /\ P.filter = "Trace" /\ P.writer.target = "stderr" /\ P.writer.id = 2
    /\ ~P.quiet /\ ~lastQuiet

\* C12: the filter decision and the write of one log call happen under one
\* hold of the lock: from the enabled() check to the end of the write the
\* call owns the guard, quiet and threshold are still the ones that admitted
\* it (they are the last ones any quiet()/level() call has set) and the
\* writer it borrowed is still the installed one.
C12_DecisionAndWriteUnderOneHold ==
    \A t \in Threads :
        /\ pc[t] = "check" => holder = t
        /\ pc[t] \in {"eval", "write"} =>
              /\ holder = t
              /\ enabled(P, op[t].level)
              /\ Passes(op[t].level)
              /\ tgt[t] = get_writer(P)
              /\ tgt[t].id = nextId

\* a call is in the middle of its record while another thread has asked for
\* the handle to change the configuration and waits
C12_Witness ==
    \E t, u \in Threads :
        /\ pc[t] = "write" /\ seg[t] = 1
        /\ pc[u] = "with" /\ op[u].kind = "cfg"

\* C13: from with() until the handle is dropped the caller owns the lock:
\* while a thread holds a handle, whatever prefix of its chain of setters has
\* been applied, no other thread is inside the filter check, the argument
\* evaluation or the write of a log call, and none holds a handle.
C13_ChainIsAtomic ==
    \A t \in Threads :
        pc[t] = "handle" =>
            /\ holder = t
            /\ \A u \in Threads \ {t} : pc[u] \in {"idle", "with", "panicked"}

\* of the chain with().level(Trace).stderr(..) only level(Trace) has been
\* applied, and a Trace call of another thread waits for the lock
C13_Witness ==
    \E t, u \in Threads :
        /\ pc[t] = "handle"
        /\ lastLevel = "Trace" /\ P.writer.id = 1
        /\ pc[u] = "with" /\ op[u].kind = "log" /\ op[u].level = "Trace"

\* C14: the lock is owned only by a thread that is inside a log call (past
\* the acquisition) or holds a configuration handle: a thread that is back
\* at its call site, still waiting in with(), or has panicked does not own
\* it, and when no thread is inside a log call or holds a handle the lock
\* is free.
C14_ReleasedOnReturn ==
    /\ holder # NoThread => Holding(holder)
    /\ \A t \in Threads : ~Holding(t) => holder # t
    /\ (\A t \in Threads : ~Holding(t)) => holder = NoThread

\* two log calls, one of them with a failed write, and a configuration
\* statement have all returned: the lock is free
C14_Witness ==
    /\ AllIdle
    /\ issued = 2 /\ nconf = 1
    /\ ioFailed # {}
    /\ \E h \in 1..MaxSinks : Len(out[h]) >= Segs /\ Complete(h, Len(out[h]) - Segs + 1)
    /\ holder = NoThread

\* thread t's log call ends in this step by a panic of its arguments or of
\* the rendering
PanicsInCall(t) == fault[t] = "none" /\ fault'[t] \in {"arg", "fmt"}

\* what C18 asks of every state
C18_State ==
    poisoned => (holder = NoThread /\ \A t \in Threads : ~Holding(t))

\* what C18 asks of every step
C18_Step ==
    /\ \A t \in Threads :
          PanicsInCall(t) =>
              /\ pc[t] \in {"eval", "write"} /\ Passes(op[t].level)
              /\ holder = t
              /\ poisoned' /\ holder' = NoThread
    /\ poisoned =>
          /\ poisoned'
          /\ out' = out
          /\ \A t \in Threads :
                (pc[t] = "with" /\ pc'[t] # "with") =>
                    (pc'[t] = "panicked" /\ fault'[t] = "poison")
    /\ \A t \in Threads :
          (pc[t] = "check" /\ ~Passes(op[t].level) /\ pc'[t] # "check") =>
              /\ pc'[t] = "idle"
              /\ poisoned' = poisoned /\ fault' = fault

\* C18: a panic of the argument evaluation or of the rendering of an enabled
\* log call happens while the call owns the lock, so it poisons the lock;
\* the lock stays poisoned for ever: from then on no thread acquires it,
\* every with() (of a log call or of a configuration statement) that gets
\* past the acquisition panics, and no sink receives anything more.  A
\* disabled call returns without evaluating its arguments, so it neither
\* panics nor poisons.
C18_ArgPanicPoisonsForever == []C18_State /\ [][C18_Step]_vars

\* the rendering of one thread's record panicked half way, and a later call
\* of another thread has failed on the poisoned lock
C18_Witness ==
    \E t, u \in Threads :
        /\ fault[t] = "fmt" /\ fault[u] = "poison"
        /\ poisoned
        /\ \E h \in 1..MaxSinks : Len(out[h]) = 1

\* C19: the threshold is never Off: in every state after construction it is
\* one of Error..Trace, an Error call is enabled whenever quiet is false, and
\* Error is suppressed exactly when the last quiet(..) call passed true.
C19_ThresholdNeverOff ==
    Constructed =>
        /\ P.filter \in Levels
        /\ ~P.quiet => enabled(P, "Error")
        /\ enabled(P, "Error") <=> ~lastQuiet

\* the threshold has been lowered to Error, the strictest level(..) accepts,
\* and an Error call is being written
C19_Witness ==
    /\ Constructed
    /\ lastLevel = "Error" /\ P.filter = "Error" /\ ~P.quiet
    /\ \E t \in Threads : pc[t] = "write" /\ op[t].level = "Error"

\* the place of call id c in the order of acquisition
AcquiredAt(c) == CHOOSE i \in 1..Len(acquired) : acquired[i] = c

\* C16: in every sink the records stand in the order in which their log
\* calls acquired the lock: whatever a sink holds comes from a call that
\* acquired the lock, of two pieces of different calls the one of the call
\* that acquired first stands first, and so the records of one thread stand
\* in the order the thread issued the calls.
C16_SinkOrderIsAcquisitionOrder ==
    \A h \in 1..MaxSinks : \A i, j \in 1..Len(out[h]) :
        LET a == out[h][i] b == out[h][j] IN
            /\ a[2] \in Range(acquired)
            /\ (i < j /\ a[2] # b[2]) => AcquiredAt(a[2]) < AcquiredAt(b[2])
            /\ (i < j /\ a[1] = b[1]) => a[2] <= b[2]

\* two threads have each written a whole record to one sink, and the call
\* issued second acquired the lock first: its record stands first
C16_Witness ==
    /\ acquired = <<2, 1>>
    /\ \E h \in 1..MaxSinks :
          /\ Len(out[h]) = 2 * Segs
          /\ Complete(h, 1) /\ out[h][1][2] = 2
          /\ Complete(h, Segs + 1) /\ out[h][Segs + 1][2] = 1
          /\ out[h][1][1] # out[h][Segs + 1][1]

\* C17 as stated: a thread that locks again while it owns the lock blocks
\* on itself for ever
C17_AsStated == \A t \in reentered : pc[t] = "stuck"

\* what C17 asks of every state
C17_State ==
    \A t \in Threads :
        /\ pc[t] = "stuck" => (t \in reentered /\ holder = t)
        /\ t \in reentered =>
              \/ pc[t] = "stuck"
              \/ pc[t] = "panicked" /\ fault[t] = "relock" /\ poisoned

\* what C17 asks of every step
C17_Step ==
    /\ \A t \in reentered' \ reentered :
          /\ holder = t
          /\ \/ pc[t] = "eval" /\ Passes(op[t].level)
             \/ pc[t] = "handle"
    /\ reentered # {} =>
          /\ out' = out
          /\ \A u \in Threads : pc'[u] \in {"check", "eval", "write", "handle"} => pc'[u] = pc[u]
    /\ \A t \in Threads :
          (pc[t] = "check" /\ ~Passes(op[t].level) /\ pc'[t] # "check") =>
              (pc'[t] = "idle" /\ reentered' = reentered)

\* C17: the lock is not re-entrant and the arguments are evaluated while it
\* is held.  A thread locks again while it owns the lock only from the
\* arguments of an enabled log call or while it holds a handle of with();
\* that call never returns: the thread blocks on itself for ever or panics,
\* which poisons the lock.  Either way no thread acquires the lock any more
\* and no sink receives another record.  A disabled log call returns
\* without evaluating its arguments, whatever they would do.
C17_ReentranceNeverReturns == []C17_State /\ [][C17_Step]_vars

\* a log call is blocked on itself by its own argument, and a log call of
\* another thread waits for the lock
C17_Witness ==
    \E t, u \in Threads :
        /\ pc[t] = "stuck" /\ op[t].kind = "log" /\ holder = t
        /\ pc[u] = "with" /\ op[u].kind = "log"

\* thread t has issued a call that has not returned
InCall(t) == pc[t] \in {"with", "init", "check", "eval", "write", "handle", "stuck"}

\* an argument expression did not terminate normally or used the logger
\* itself (or something else panicked)
ArgsMisbehaved ==
    \/ \E t \in Threads : fault[t] # "none"
    \/ \E t \in Threads : pc[t] = "stuck" /\ op[t].kind = "log"

Misused == reentered # {} \/ \E t \in Threads : fault[t] # "none"

\* some call has not returned / every call has returned
Pending == \E t \in Threads : InCall(t)
AllReturned == \A t \in Threads : ~InCall(t)

\* what C15 asks of every state
C15_State ==
    ~Misused =>
        \A t \in Threads :
            (InCall(t) /\ ~ENABLED Progress(t)) =>
                /\ pc[t] = "with"
                /\ \E u \in Threads \ {t} :
                      /\ holder = u \/ pc[u] = "init"
                      /\ ENABLED Progress(u)

====
